---- MODULE Spec2Model ----
(***************************************************************************)
(* PresentationRecorder: the capture / record session of the React         *)
(* component, in its two source variants.                                  *)
(*   variant 1 : src/unnamed/part_001 (cleanup effect with deps [])         *)
(*   variant 0 : src/unnamed/part_000 (cleanup effect with deps            *)
(*               [isRecording], stopRecording guarded by the isRecording   *)
(*               state captured by the render)                             *)
(* The browser objects the component drives (getUserMedia, MediaStream     *)
(* tracks, MediaRecorder, setInterval, Date.now) are modelled by the       *)
(* platform fields: liveTracks, recorders, intervals, pendingAcq, clock.   *)
(***************************************************************************)
EXTENDS Integers, Sequences, FiniteSets, TLC

\* ---------------------------------------------------------------- bounds
\* streams and recorders the platform hands out in one run
MaxHandles == 4
\* fragments the encoders deliver in one run
MaxFrags == 2
\* seconds the clock advances in one run
MaxClock == 1
\* longest recording whose ticks are formatted, in seconds
MaxElapsed == 4500

\* sizes of the fragments the encoder may deliver (0 = empty fragment)
FragSizes == {0, 5}

\* rejection / exception values: an Error carrying a message, or a non-Error
Failures ==
  { [isError |-> TRUE, message |-> "Permission denied"],
    [isError |-> FALSE, message |-> ""] }

\* what constructing and starting the encoder does: it succeeds, or throws
EncoderOutcomes ==
  { [ok |-> TRUE, isError |-> FALSE, message |-> ""],
    [ok |-> FALSE, isError |-> TRUE, message |-> "mimeType is not supported"],
    [ok |-> FALSE, isError |-> FALSE, message |-> ""] }

\* ----------------------------------------------------------------- state
VARIABLES
  variant,               \* which source variant is mounted (0 or 1)
  gated,                 \* TRUE: commands come only from the rendered buttons
  mounted,               \* the component is mounted
  isCameraActive,        \* useState
  isRecording,           \* useState
  recordedBlob,          \* useState: the Artifact, or NullBlob
  status,                \* useState
  cameraError,           \* useState
  timer,                 \* useState: the elapsed label
  mediaStreamRef,        \* useRef: 0 = null, else a stream id
  mediaRecorderRef,      \* useRef: 0 = null, else a recorder id
  recordedChunksRef,     \* useRef: sequence of fragments
  timerIntervalRef,      \* useRef: 0 = null, else an interval id
  recordingStartTimeRef, \* useRef: -1 = null, else Date.now() at start
  effIsRecording,        \* isRecording captured by the registered cleanup (variant 0)
  liveTracks,            \* platform: streams whose tracks are running
  nStreams,              \* platform: streams handed out so far
  pendingAcq,            \* platform: getUserMedia promises not yet settled
  recorders,             \* platform: the MediaRecorder objects constructed
  intervals,             \* platform: interval ids scheduled and not cleared
  nIntervals,            \* platform: interval ids handed out so far
  clock,                 \* platform: Date.now() in whole seconds
  stopThrows,            \* platform: stop() on an inactive recorder throws
  thrown                 \* an exception escaped a handler or a cleanup

vars ==
  << variant, gated, mounted, isCameraActive, isRecording, recordedBlob, status,
     cameraError, timer, mediaStreamRef, mediaRecorderRef, recordedChunksRef,
     timerIntervalRef, recordingStartTimeRef, effIsRecording, liveTracks,
     nStreams, pendingAcq, recorders, intervals, nIntervals, clock,
     stopThrows, thrown >>

NullBlob == [present |-> FALSE, parts |-> << >>, by |-> 0]

\* the state as one record, so that the component's functions compose
Cur ==
  [ variant |-> variant, gated |-> gated, mounted |-> mounted,
    isCameraActive |-> isCameraActive, isRecording |-> isRecording,
    recordedBlob |-> recordedBlob, status |-> status,
    cameraError |-> cameraError, timer |-> timer,
    mediaStreamRef |-> mediaStreamRef, mediaRecorderRef |-> mediaRecorderRef,
    recordedChunksRef |-> recordedChunksRef,
    timerIntervalRef |-> timerIntervalRef,
    recordingStartTimeRef |-> recordingStartTimeRef,
    effIsRecording |-> effIsRecording, liveTracks |-> liveTracks,
    nStreams |-> nStreams, pendingAcq |-> pendingAcq, recorders |-> recorders,
    intervals |-> intervals, nIntervals |-> nIntervals, clock |-> clock,
    stopThrows |-> stopThrows, thrown |-> thrown ]

Set(s) ==
  /\ variant' = s.variant
  /\ gated' = s.gated
  /\ mounted' = s.mounted
  /\ isCameraActive' = s.isCameraActive
  /\ isRecording' = s.isRecording
  /\ recordedBlob' = s.recordedBlob
  /\ status' = s.status
  /\ cameraError' = s.cameraError
  /\ timer' = s.timer
  /\ mediaStreamRef' = s.mediaStreamRef
  /\ mediaRecorderRef' = s.mediaRecorderRef
  /\ recordedChunksRef' = s.recordedChunksRef
  /\ timerIntervalRef' = s.timerIntervalRef
  /\ recordingStartTimeRef' = s.recordingStartTimeRef
  /\ effIsRecording' = s.effIsRecording
  /\ liveTracks' = s.liveTracks
  /\ nStreams' = s.nStreams
  /\ pendingAcq' = s.pendingAcq
  /\ recorders' = s.recorders
  /\ intervals' = s.intervals
  /\ nIntervals' = s.nIntervals
  /\ clock' = s.clock
  /\ stopThrows' = s.stopThrows
  /\ thrown' = s.thrown

\* ------------------------------------------------------ pure helpers
RECURSIVE SumSizes(_)
SumSizes(fs) ==
  IF fs = << >> THEN 0 ELSE Head(fs).size + SumSizes(Tail(fs))

\* the non-empty fragments of a sequence, in order
NonEmpty(fs) == SelectSeq(fs, LAMBDA f : f.size > 0)

\* String(n).padStart(2, '0') for n >= 0
Pad2(n) == IF n < 10 THEN "0" \o ToString(n) ELSE ToString(n)

\* the label with the minutes wrapped at the hour
FormatElapsed_WrapsMinutes(elapsed) ==
  LET minutes == (elapsed \div 60) % 60
      seconds == elapsed % 60
  IN  Pad2(minutes) \o ":" \o Pad2(seconds)

\* the label a tick publishes for `elapsed` whole seconds
FormatElapsed(elapsed) ==
  LET minutes == elapsed \div 60
      seconds == elapsed % 60
  IN  Pad2(minutes) \o ":" \o Pad2(seconds)

\* Date.now(), in milliseconds
DateNow(s) == s.clock * 1000

\* error instanceof Error ? error.message : 'Unknown error'
ErrorMessage(e) == IF e.isError THEN e.message ELSE "Unknown error"

\* (size / 1024 / 1024).toFixed(2)
ToFixed2MB(size) ==
  LET h == (size * 200 + 1048576) \div 2097152
  IN  ToString(h \div 100) \o "." \o Pad2(h % 100)

\* new Blob(parts): the concatenation of the parts, in order
NewBlob(parts, r) == [present |-> TRUE, parts |-> parts, by |-> r]

BlobSize(b) == SumSizes(b.parts)

\* ------------------------------------------------ platform operations
\* a MediaRecorder just constructed over `stream` and started
\* (delivered, artifacts and fromRecorded are its history: the fragments it
\* has delivered, the Artifacts its onstop has built, and whether an Artifact
\* was present when it was started)
NewRecorder(stream, fromRecorded) ==
  [ state |-> "recording", stopping |-> FALSE, stream |-> stream,
    delivered |-> << >>, artifacts |-> 0, fromRecorded |-> fromRecorded ]

\* MediaRecorder.stop() on a recorder that is not inactive: the state
\* becomes inactive at once, the final dataavailable and the stop event are
\* queued as one task
RecorderStop(s, r) ==
  [s EXCEPT !.recorders[r].state = "inactive",
            !.recorders[r].stopping = TRUE]

RecorderActive(s, r) == r # 0 /\ s.recorders[r].state # "inactive"

\* ------------------------------------------- the component's functions
stopCamera(s) ==
  IF s.mediaStreamRef # 0
    THEN [s EXCEPT !.liveTracks = s.liveTracks \ {s.mediaStreamRef},
                   !.mediaStreamRef = 0,
                   !.isCameraActive = FALSE]
    ELSE s

stopTimer(s) ==
  IF s.timerIntervalRef # 0
    THEN [s EXCEPT !.intervals = s.intervals \ {s.timerIntervalRef},
                   !.timerIntervalRef = 0]
    ELSE s

\* stopRecording without its stopTimer() call
stopRecording_KeepsTimer(s) ==
  IF RecorderActive(s, s.mediaRecorderRef)
    THEN [RecorderStop(s, s.mediaRecorderRef) EXCEPT !.isRecording = FALSE]
    ELSE s

\* part_001: guarded by the recorder's own state
stopRecording(s) ==
  IF RecorderActive(s, s.mediaRecorderRef)
    THEN stopTimer([RecorderStop(s, s.mediaRecorderRef)
                      EXCEPT !.isRecording = FALSE])
    ELSE s

\* part_000: guarded by the isRecording value `rec` the render captured.
\* stop() on an inactive recorder throws InvalidStateError on platforms
\* where s.stopThrows, and does nothing on the others.
stopRecording0Throws(s, rec) ==
  /\ s.mediaRecorderRef # 0
  /\ rec
  /\ ~RecorderActive(s, s.mediaRecorderRef)
  /\ s.stopThrows

stopRecording0(s, rec) ==
  IF s.mediaRecorderRef # 0 /\ rec
    THEN IF stopRecording0Throws(s, rec)
           THEN [s EXCEPT !.thrown = TRUE]
           ELSE LET s1 == IF RecorderActive(s, s.mediaRecorderRef)
                            THEN RecorderStop(s, s.mediaRecorderRef)
                            ELSE s
                IN  stopTimer([s1 EXCEPT !.isRecording = FALSE])
    ELSE s

startTimer(s) ==
  LET id == s.nIntervals + 1
  IN  [s EXCEPT !.recordingStartTimeRef = DateNow(s),
                !.nIntervals = id,
                !.intervals = s.intervals \cup {id},
                !.timerIntervalRef = id]

\* the interval callback
timerTick(s) ==
  IF s.recordingStartTimeRef = -1
    THEN s
    ELSE LET elapsed == (DateNow(s) - s.recordingStartTimeRef) \div 1000
         IN  [s EXCEPT !.timer = FormatElapsed(elapsed)]

\* recorder.ondataavailable, for a fragment f
ondataavailable(s, f) ==
  IF f.size > 0
    THEN [s EXCEPT !.recordedChunksRef = Append(s.recordedChunksRef, f)]
    ELSE s

\* recorder.onstop of recorder r
onstop(s, r) ==
  LET blob == NewBlob(s.recordedChunksRef, r)
  IN  [s EXCEPT !.recordedBlob = blob,
                !.status = "Recording complete! Size: "
                             \o ToFixed2MB(BlobSize(blob)) \o " MB",
                !.recorders[r].artifacts = s.recorders[r].artifacts + 1]

\* startRecording raising the recording flag and the timer before the
\* encoder is constructed and started, so that a failure leaves them on
startRecording_FlagBeforeStart(s, enc) ==
  IF ~s.isCameraActive \/ s.mediaStreamRef = 0
    THEN [s EXCEPT !.status = "Camera not active"]
    ELSE LET s1 == startTimer([s EXCEPT !.recordedChunksRef = << >>,
                                        !.recordedBlob = NullBlob,
                                        !.isRecording = TRUE])
         IN  IF enc.ok
               THEN [s1 EXCEPT
                       !.recorders =
                          Append(s1.recorders,
                                 NewRecorder(s1.mediaStreamRef,
                                             s.recordedBlob.present)),
                       !.mediaRecorderRef = Len(s1.recorders) + 1,
                       !.status = "RECORDING..."]
               ELSE [s1 EXCEPT !.status = "Failed to start recording: "
                                            \o ErrorMessage(enc)]

\* startRecording resetting the buffer and the Artifact above its guard
startRecording_ResetsAboveGuard(s, enc) ==
  IF ~s.isCameraActive \/ s.mediaStreamRef = 0
    THEN [s EXCEPT !.recordedChunksRef = << >>,
                   !.recordedBlob = NullBlob,
                   !.status = "Camera not active"]
    ELSE LET s1 == [s EXCEPT !.recordedChunksRef = << >>,
                             !.recordedBlob = NullBlob]
         IN  IF enc.ok
               THEN LET r == Len(s1.recorders) + 1
                        s2 == [s1 EXCEPT
                                 !.recorders =
                                    Append(s1.recorders,
                                           NewRecorder(s1.mediaStreamRef,
                                                       s.recordedBlob.present)),
                                 !.mediaRecorderRef = r,
                                 !.isRecording = TRUE]
                    IN  [startTimer(s2) EXCEPT !.status = "RECORDING..."]
               ELSE [s1 EXCEPT !.status = "Failed to start recording: "
                                            \o ErrorMessage(enc)]

\* startRecording resetting the buffer and the Artifact only once the
\* encoder has been constructed and started
startRecording_ResetsOnSuccess(s, enc) ==
  IF ~s.isCameraActive \/ s.mediaStreamRef = 0
    THEN [s EXCEPT !.status = "Camera not active"]
    ELSE IF enc.ok
           THEN LET r == Len(s.recorders) + 1
                    s2 == [s EXCEPT
                             !.recordedChunksRef = << >>,
                             !.recordedBlob = NullBlob,
                             !.recorders =
                                Append(s.recorders,
                                       NewRecorder(s.mediaStreamRef,
                                                   s.recordedBlob.present)),
                             !.mediaRecorderRef = r,
                             !.isRecording = TRUE]
                IN  [startTimer(s2) EXCEPT !.status = "RECORDING..."]
           ELSE [s EXCEPT !.status = "Failed to start recording: "
                                       \o ErrorMessage(enc)]

\* startRecording; enc is what constructing and starting the encoder does
startRecording(s, enc) ==
  IF ~s.isCameraActive \/ s.mediaStreamRef = 0
    THEN [s EXCEPT !.status = "Camera not active"]
    ELSE LET s1 == [s EXCEPT !.recordedChunksRef = << >>,
                             !.recordedBlob = NullBlob]
         IN  IF enc.ok
               THEN LET r == Len(s1.recorders) + 1
                        s2 == [s1 EXCEPT
                                 !.recorders =
                                    Append(s1.recorders,
                                           NewRecorder(s1.mediaStreamRef,
                                                       s.recordedBlob.present)),
                                 !.mediaRecorderRef = r,
                                 !.isRecording = TRUE]
                    IN  [startTimer(s2) EXCEPT !.status = "RECORDING..."]
               ELSE [s1 EXCEPT !.status = "Failed to start recording: "
                                            \o ErrorMessage(enc)]

\* the continuation of startCamera after getUserMedia resolved
startCameraResolved(s) ==
  LET stream == s.nStreams + 1
  IN  [s EXCEPT !.nStreams = stream,
                !.liveTracks = s.liveTracks \cup {stream},
                !.pendingAcq = s.pendingAcq - 1,
                !.mediaStreamRef = stream,
                !.isCameraActive = TRUE,
                !.cameraError = "",
                !.status = "Click to Start Recording"]

\* the catch branch publishing the bare message as the camera error
startCameraRejected_BareMessage(s, e) ==
  [s EXCEPT !.pendingAcq = s.pendingAcq - 1,
            !.cameraError = ErrorMessage(e),
            !.status = "Failed to access camera"]

\* the catch branch of startCamera after getUserMedia rejected with e
startCameraRejected(s, e) ==
  [s EXCEPT !.pendingAcq = s.pendingAcq - 1,
            !.cameraError = "Camera Error: " \o ErrorMessage(e),
            !.status = "Failed to access camera"]

\* downloadVideo discarding the blob together with its object URL
downloadVideo_RevokesBlob(s) ==
  IF ~s.recordedBlob.present
    THEN s
    ELSE [s EXCEPT !.recordedBlob = NullBlob,
                   !.status = "Video downloaded successfully!"]

\* the object URL, the anchor and the click leave no trace in the component
downloadVideo(s) ==
  IF ~s.recordedBlob.present
    THEN s
    ELSE [s EXCEPT !.status = "Video downloaded successfully!"]

\* the cleanup function of the effect
\* part_001 (deps []): stopRecording(); stopCamera()
cleanup(s) == stopCamera(stopRecording(s))

\* part_000 (deps [isRecording]): the closure holds the isRecording value
\* `rec` of the render that registered it
cleanup0(s, rec) ==
  IF rec
    THEN IF stopRecording0Throws(s, rec)
           THEN stopRecording0(s, rec)
           ELSE stopCamera(stopRecording0(s, rec))
    ELSE stopCamera(s)

\* part_000: after a handler has changed isRecording the component renders
\* again, the cleanup registered by the previous render runs and the effect
\* is registered anew. An exception in the cleanup unmounts the root, which
\* runs the cleanup just registered.
rerunEffect(s) ==
  IF s.variant = 0 /\ s.mounted /\ s.isRecording # s.effIsRecording
    THEN LET now == s.isRecording
             s1 == [s EXCEPT !.effIsRecording = now]
         IN  IF stopRecording0Throws(s1, s.effIsRecording)
               THEN cleanup0([cleanup0(s1, s.effIsRecording)
                                EXCEPT !.mounted = FALSE], now)
               ELSE cleanup0(s1, s.effIsRecording)
    ELSE s

\* unmount: the registered cleanup runs
teardown(s) ==
  LET s1 == [s EXCEPT !.mounted = FALSE]
  IN  IF s.variant = 0 THEN cleanup0(s1, s.effIsRecording) ELSE cleanup(s1)

\* --------------------------------------------------------------- actions
\* every handler ends with the render and effect pass its state changes cause
Commit(s) == Set(rerunEffect(s))

\* the buttons the component renders
ShowsStartCamera == ~isCameraActive
ShowsStartRecording == isCameraActive /\ ~isRecording
ShowsStopRecording == isRecording
ShowsDownload == recordedBlob.present

\* streams acquired or being acquired, and recorders constructed
Handles == nStreams + pendingAcq + Len(recorders)

\* startCamera up to the await: getUserMedia is issued
RequestCamera ==
  /\ mounted
  /\ gated => ShowsStartCamera
  /\ Handles < MaxHandles
  /\ Commit([Cur EXCEPT !.pendingAcq = pendingAcq + 1])

AcquireResolved ==
  /\ pendingAcq > 0
  /\ Commit(startCameraResolved(Cur))

AcquireRejectedWith(e) ==
  /\ pendingAcq > 0
  /\ Commit(startCameraRejected(Cur, e))

AcquireRejected == \E e \in Failures : AcquireRejectedWith(e)

RequestRecordWith(enc) ==
  /\ mounted
  /\ gated => ShowsStartRecording
  /\ Handles < MaxHandles
  /\ Commit(startRecording(Cur, enc))

RequestRecord == \E enc \in EncoderOutcomes : RequestRecordWith(enc)

\* stopRecording as the current render binds it to the Stop button
stopRecordingAsRendered(s) ==
  IF s.variant = 0 THEN stopRecording0(s, s.isRecording) ELSE stopRecording(s)

\* the Stop button; in part_000 the handler may throw out of stop()
RequestStop ==
  /\ mounted
  /\ gated => ShowsStopRecording
  /\ Commit(stopRecordingAsRendered(Cur))

\* fragments delivered so far, by all recorders
RECURSIVE TotalDelivered(_)
TotalDelivered(rs) ==
  IF rs = << >> THEN 0 ELSE Len(Head(rs).delivered) + TotalDelivered(Tail(rs))

\* the encoder delivers a timeslice fragment of recorder r
Fragment ==
  \E r \in 1..Len(recorders), sz \in FragSizes :
    /\ recorders[r].state = "recording"
    /\ TotalDelivered(recorders) < MaxFrags
    /\ LET f == [rec |-> r, seq |-> Len(recorders[r].delivered) + 1,
                 size |-> sz]
           s1 == [Cur EXCEPT !.recorders[r].delivered =
                                Append(recorders[r].delivered, f)]
       IN  Commit(ondataavailable(s1, f))

\* the task queued by stop(): the final fragment, then the stop event;
\* the tasks of different recorders run in the order they were queued
\* (past MaxFrags fragments the final fragment is an empty one)
Finalize ==
  \E r \in 1..Len(recorders), sz \in FragSizes :
    /\ recorders[r].stopping
    /\ \A q \in 1..(r - 1) : ~recorders[q].stopping
    /\ TotalDelivered(recorders) >= MaxFrags => sz = 0
    /\ LET f == [rec |-> r, seq |-> Len(recorders[r].delivered) + 1,
                 size |-> sz]
           s1 == [Cur EXCEPT !.recorders[r].delivered =
                                Append(recorders[r].delivered, f),
                             !.recorders[r].stopping = FALSE]
       IN  Commit(onstop(ondataavailable(s1, f), r))

\* a recorder whose stream has no running track left stops by itself
TracksEnded ==
  \E r \in 1..Len(recorders) :
    /\ recorders[r].state = "recording"
    /\ recorders[r].stream \notin liveTracks
    /\ Commit(RecorderStop(Cur, r))

TimerTick ==
  \E i \in intervals : Commit(timerTick(Cur))

AdvanceClock ==
  /\ clock < MaxClock
  /\ Commit([Cur EXCEPT !.clock = clock + 1])

RequestDownload ==
  /\ mounted
  /\ gated => ShowsDownload
  /\ Commit(downloadVideo(Cur))

\* the component is unmounted
Teardown ==
  /\ mounted
  /\ Set(teardown(Cur))

\* --------------------------------------------------------- specifications
InitState ==
  /\ mounted = TRUE
  /\ isCameraActive = FALSE
  /\ isRecording = FALSE
  /\ recordedBlob = NullBlob
  /\ status = "Click \"Start Camera\" to begin"
  /\ cameraError = ""
  /\ timer = "00:00"
  /\ mediaStreamRef = 0
  /\ mediaRecorderRef = 0
  /\ recordedChunksRef = << >>
  /\ timerIntervalRef = 0
  /\ recordingStartTimeRef = -1
  /\ effIsRecording = FALSE
  /\ liveTracks = {}
  /\ nStreams = 0
  /\ pendingAcq = 0
  /\ recorders = << >>
  /\ intervals = {}
  /\ nIntervals = 0
  /\ clock = 0
  /\ thrown = FALSE

\* part_001 driven through its rendered buttons
Init == InitState /\ variant = 1 /\ gated = TRUE /\ stopThrows = TRUE

\* part_001 with the five commands issued in any state
InitApi == InitState /\ variant = 1 /\ gated = FALSE /\ stopThrows = TRUE

\* part_000 driven through its rendered buttons, on either kind of platform
Init0 == InitState /\ variant = 0 /\ gated = TRUE /\ stopThrows \in BOOLEAN

Next ==
  \/ RequestCamera
  \/ AcquireResolved
  \/ AcquireRejected
  \/ RequestRecord
  \/ RequestStop
  \/ Fragment
  \/ Finalize
  \/ TimerTick
  \/ RequestDownload
  \/ Teardown

\* part_000 releases the stream under a running recorder, so the recorder's
\* own reaction to ended tracks is part of its behaviour
Next0 == Next \/ TracksEnded

\* with the clock running between the steps
NextTimed == Next \/ AdvanceClock

\* the first recording of a session running, its tick firing any number of
\* whole seconds after the start
InitTick ==
  /\ variant = 1
  /\ gated = TRUE
  /\ stopThrows = TRUE
  /\ mounted = TRUE
  /\ isCameraActive = TRUE
  /\ isRecording = TRUE
  /\ recordedBlob = NullBlob
  /\ status = "RECORDING..."
  /\ cameraError = ""
  /\ timer = "00:00"
  /\ mediaStreamRef = 1
  /\ mediaRecorderRef = 1
  /\ recordedChunksRef = << >>
  /\ timerIntervalRef = 1
  /\ recordingStartTimeRef = 0
  /\ effIsRecording = FALSE
  /\ liveTracks = {1}
  /\ nStreams = 1
  /\ pendingAcq = 0
  /\ recorders = << NewRecorder(1, FALSE) >>
  /\ intervals = {1}
  /\ nIntervals = 1
  /\ thrown = FALSE
  /\ clock \in 0..MaxElapsed

NextTick == TimerTick

Spec == Init /\ [][Next]_vars
SpecApi == InitApi /\ [][Next]_vars
Spec0 == Init0 /\ [][Next0]_vars
SpecTimed == Init /\ [][NextTimed]_vars
SpecTick == InitTick /\ [][NextTick]_vars

\* ------------------------------------------------------------ vocabulary
\* recorder r has been started and not stopped
Recording(r) == recorders[r].state = "recording"

\* recorder r has been stopped and its finalize callback has not run yet
Finalizing(r) == recorders[r].stopping

\* the RecordingSession the component holds is active
RecordingSessionActive ==
  mediaRecorderRef # 0 /\ Recording(mediaRecorderRef)

\* the CaptureSession the component holds is alive
CaptureSessionAlive == mediaStreamRef # 0 /\ mediaStreamRef \in liveTracks

Recorders == 1..Len(recorders)

\* ----------------------------------------------------------------- claims

\* C1: whenever a RecordingSession is active (its recorder started and not
\* stopped, isRecording true) or stopped and not yet finalized, the stream
\* it records from has not been released.
C1_StreamOutlivesRecording ==
  \A r \in Recorders :
    ((mediaRecorderRef = r /\ Recording(r) /\ isRecording) \/ Finalizing(r))
      => recorders[r].stream \in liveTracks

\* C2: an Artifact is the concatenation, in delivery order, of exactly the
\* non-empty fragments its recording delivered, so its size is the sum of
\* their sizes.
C2_ArtifactIsWhatWasDelivered ==
  recordedBlob.present =>
    /\ recordedBlob.parts = NonEmpty(recorders[recordedBlob.by].delivered)
    /\ BlobSize(recordedBlob)
         = SumSizes(recorders[recordedBlob.by].delivered)

\* C3: at most one acquired, unreleased stream exists at any time, and it is
\* the one mediaStreamRef holds.
C3_AtMostOneCaptureSession ==
  /\ Cardinality(liveTracks) <= 1
  /\ liveTracks \subseteq {mediaStreamRef}

\* C4: every teardown ends with no stream alive, no recorder recording, no
\* tick scheduled, the camera and recording flags off and no exception; a
\* teardown of the unmounted component changes nothing.
TornDown(s) ==
  /\ s.liveTracks = {}
  /\ s.mediaStreamRef = 0
  /\ ~s.isCameraActive
  /\ ~s.isRecording
  /\ \A r \in 1..Len(s.recorders) : s.recorders[r].state = "inactive"
  /\ s.intervals = {}
  /\ s.timerIntervalRef = 0
  /\ ~s.thrown

C4_TeardownEndsIdle ==
  LET s1 == teardown(Cur)
  IN  TornDown(s1) /\ teardown(s1) = s1

C6_NoArtifactWhileRerecording ==
  \A r \in Recorders :
    (mediaRecorderRef = r /\ Recording(r) /\ isRecording
       /\ recorders[r].fromRecorded)
      => ~recordedBlob.present

\* the fragments of a sequence, as a set
Range(fs) == { fs[i] : i \in DOMAIN fs }

\* C7: requestStop from Recording stops the recorder, queues its finalize
\* callback and clears the tick without touching the fragments captured; the
\* finalize callback of a recording builds the one Artifact of that recording
\* and every non-empty fragment the recording delivered is in it.
C7_StopFinalizesWhatWasCaptured ==
  [][ /\ (RequestStop /\ RecordingSessionActive) =>
           /\ ~RecordingSessionActive'
           /\ Finalizing(mediaRecorderRef)'
           /\ timerIntervalRef' = 0
           /\ intervals' = {}
           /\ recordedChunksRef' = recordedChunksRef
      /\ \A r \in Recorders :
           (Finalizing(r) /\ ~Finalizing(r)') =>
             /\ recordedBlob'.present
             /\ recordedBlob'.by = r
             /\ recorders'[r].artifacts = 1
             /\ Range(NonEmpty(recorders'[r].delivered))
                  \subseteq Range(recordedBlob'.parts)
    ]_vars

\* C8: a rejected acquisition creates no CaptureSession, leaves the stream
\* handle and the camera flag as they were and publishes "Camera Error: "
\* followed by the reason; an acquisition that resolves reaches CameraReady
\* and clears the error, also after an earlier failure.
C8_FailedAcquisitionLeavesIdle ==
  [][ /\ \A e \in Failures :
           AcquireRejectedWith(e) =>
             /\ e.isError => cameraError' = "Camera Error: " \o e.message
             /\ ~e.isError => cameraError' = "Camera Error: Unknown error"
             /\ mediaStreamRef' = mediaStreamRef
             /\ isCameraActive' = isCameraActive
             /\ liveTracks' = liveTracks
             /\ nStreams' = nStreams
             /\ (mediaStreamRef = 0 /\ ~isCameraActive) => ShowsStartCamera'
      /\ AcquireResolved =>
           /\ isCameraActive'
           /\ CaptureSessionAlive'
           /\ cameraError' = ""
    ]_vars

\* the acquisition was denied, the session is Idle with the error published
\* and a later requestCamera is in flight
C8_Witness ==
  /\ cameraError = "Camera Error: Permission denied"
  /\ status = "Failed to access camera"
  /\ mediaStreamRef = 0
  /\ ~isCameraActive
  /\ liveTracks = {}
  /\ pendingAcq = 1

\* C9: when the encoder fails inside requestRecord no recorder is stored or
\* created, isRecording stays false, no tick is scheduled and the
\* CaptureSession stays alive: the session is in CameraReady.
C9_EncoderFailureKeepsCameraReady ==
  [][ \A enc \in EncoderOutcomes :
        (~enc.ok /\ isCameraActive /\ mediaStreamRef # 0
           /\ RequestRecordWith(enc)) =>
          /\ mediaRecorderRef' = mediaRecorderRef
          /\ recorders' = recorders
          /\ ~isRecording /\ ~isRecording'
          /\ timerIntervalRef' = timerIntervalRef
          /\ intervals' = intervals
          /\ mediaStreamRef' = mediaStreamRef
          /\ liveTracks' = liveTracks
          /\ CaptureSessionAlive'
          /\ isCameraActive'
          /\ ~recordedBlob'.present
    ]_vars

\* the encoder failed after an earlier recording had completed
C9_Witness ==
  /\ status = "Failed to start recording: mimeType is not supported"
  /\ Len(recorders) = 1
  /\ recorders[1].artifacts = 1
  /\ isCameraActive
  /\ CaptureSessionAlive
  /\ ~isRecording
  /\ intervals = {}

\* C10: with no RecordingSession active, stopRecording changes nothing and
\* raises no error.
C10_StopWithoutSessionIsNoOp ==
  ~RecordingSessionActive => stopRecordingAsRendered(Cur) = Cur

\* C11: requestDownload without an Artifact changes nothing; with an
\* Artifact it leaves the stream, the camera and recording flags, the
\* recorder, the Artifact, the fragment buffer and the timer as they were,
\* and a further requestDownload finds the same Artifact and changes nothing.
C11_DownloadLeavesSessionUntouched ==
  [][ /\ ~recordedBlob.present => downloadVideo(Cur) = Cur
      /\ RequestDownload =>
           /\ recordedBlob.present
           /\ recordedBlob' = recordedBlob
           /\ recordedChunksRef' = recordedChunksRef
           /\ mediaStreamRef' = mediaStreamRef
           /\ liveTracks' = liveTracks
           /\ isCameraActive' = isCameraActive
           /\ isRecording' = isRecording
           /\ mediaRecorderRef' = mediaRecorderRef
           /\ recorders' = recorders
           /\ timer' = timer
           /\ timerIntervalRef' = timerIntervalRef
           /\ intervals' = intervals
           /\ recordingStartTimeRef' = recordingStartTimeRef
           /\ Cur' = [Cur EXCEPT !.status = "Video downloaded successfully!"]
           /\ downloadVideo(Cur') = Cur'
    ]_vars

\* the Artifact of a completed recording has been downloaded and is still
\* there, with the camera ready
C11_Witness ==
  /\ status = "Video downloaded successfully!"
  /\ recordedBlob.present
  /\ BlobSize(recordedBlob) > 0
  /\ CaptureSessionAlive
  /\ ~isRecording

\* the whole seconds a label of the clock's range stands for
LabelSeconds(l) ==
  CHOOSE e \in 0..(MaxClock + 1) : FormatElapsed(e) = l

\* C12: the label is "00:00" right after every start of the timer, also
\* when an earlier recording has run, and while a recording is active the
\* label never goes back.
C12_LabelRestartsAtZero ==
  [][ /\ \A enc \in EncoderOutcomes :
           (RequestRecordWith(enc) /\ timerIntervalRef' # timerIntervalRef)
             => timer' = "00:00"
      /\ (RecordingSessionActive /\ RecordingSessionActive'
            /\ mediaRecorderRef' = mediaRecorderRef)
           => LabelSeconds(timer') >= LabelSeconds(timer)
    ]_vars

\* C13: a teardown stops the active recorder (silently when there is none),
\* clears the tick and releases the held stream; and no step stops the
\* tracks of a stream and leaves a recorder recording from it, its stop not
\* issued.
C13_EncoderStoppedBeforeRelease ==
  [][ /\ Teardown =>
           /\ ~thrown'
           /\ \A r \in Recorders : ~Recording(r)'
           /\ timerIntervalRef' = 0
           /\ mediaStreamRef' = 0
           /\ mediaStreamRef \notin liveTracks'
      /\ \A r \in 1..Len(recorders') :
           recorders'[r].stream \notin liveTracks' => ~Recording(r)'
    ]_vars

\* C14: requestRecord while a RecordingSession is active changes nothing: no
\* further recorder is constructed, no further tick is scheduled and the
\* fragments buffered so far stay in the buffer.
C14_RecordWhileRecordingIsNoOp ==
  [][ \A enc \in EncoderOutcomes :
        (RecordingSessionActive /\ RequestRecordWith(enc)) =>
          /\ recorders' = recorders
          /\ mediaRecorderRef' = mediaRecorderRef
          /\ nIntervals' = nIntervals
          /\ intervals' = intervals
          /\ recordedChunksRef' = recordedChunksRef
    ]_vars

\* C15: the Artifact holds fragments of the one recording whose finalize
\* callback built it, the buffer holds fragments of the current recorder
\* only, and until a stopped recording is finalized the fragments it
\* delivered are still in the buffer.
C15_LateCallbacksStayInTheirRecording ==
  /\ recordedBlob.present =>
       \A i \in DOMAIN recordedBlob.parts :
         recordedBlob.parts[i].rec = recordedBlob.by
  /\ \A i \in DOMAIN recordedChunksRef :
       recordedChunksRef[i].rec = mediaRecorderRef
  /\ \A r \in Recorders :
       Finalizing(r) =>
         Range(NonEmpty(recorders[r].delivered))
           \subseteq Range(recordedChunksRef)

\* C16: requestRecord with the camera flag off or the stream handle null
\* constructs no recorder, schedules no tick, keeps the Artifact and the
\* fragment buffer and changes nothing but the status, which becomes
\* "Camera not active".
C16_RecordWithoutCameraOnlySetsStatus ==
  [][ /\ (~isCameraActive \/ mediaStreamRef = 0) =>
           \A enc \in EncoderOutcomes :
             startRecording(Cur, enc)
               = [Cur EXCEPT !.status = "Camera not active"]
      /\ \A enc \in EncoderOutcomes :
           ((~isCameraActive \/ mediaStreamRef = 0)
              /\ RequestRecordWith(enc)) =>
             /\ recorders' = recorders
             /\ mediaRecorderRef' = mediaRecorderRef
             /\ isRecording' = isRecording
             /\ intervals' = intervals
             /\ timerIntervalRef' = timerIntervalRef
             /\ recordedBlob' = recordedBlob
             /\ recordedChunksRef' = recordedChunksRef
             /\ Cur' = [Cur EXCEPT !.status = "Camera not active"]
    ]_vars

\* requestRecord was refused in Idle, after a denied acquisition and with
\* another acquisition in flight
C16_Witness ==
  /\ status = "Camera not active"
  /\ cameraError = "Camera Error: Permission denied"
  /\ ~isCameraActive
  /\ mediaStreamRef = 0
  /\ recorders = << >>
  /\ intervals = {}
  /\ pendingAcq = 1

\* decimal numerals, written out digit by digit
DecimalDigits == << "0", "1", "2", "3", "4", "5", "6", "7", "8", "9" >>

RECURSIVE Decimal(_)
Decimal(n) ==
  IF n < 10
    THEN DecimalDigits[n + 1]
    ELSE Decimal(n \div 10) \o DecimalDigits[(n % 10) + 1]

\* n in decimal, with a leading zero when it has one digit
TwoDigits(n) == IF n < 10 THEN "0" \o Decimal(n) ELSE Decimal(n)

\* C17: a tick e whole seconds after the start publishes e div 60 and
\* e mod 60, each in decimal with at least two digits, joined by ":"; the
\* minutes run past 59 (4205 s is "70:05", 4500 s is "75:00").
C17_TickPublishesMinutesAndSeconds ==
  [][ TimerTick =>
        LET e == (DateNow(Cur) - recordingStartTimeRef) \div 1000
        IN  /\ e >= 0
            /\ timer' = TwoDigits(e \div 60) \o ":" \o TwoDigits(e % 60)
            /\ e = 59 => timer' = "00:59"
            /\ e = 60 => timer' = "01:00"
            /\ e = 3600 => timer' = "60:00"
            /\ e = 4205 => timer' = "70:05"
            /\ e = 4500 => timer' = "75:00"
    ]_vars

\* the tick of a recording that has run for 75 minutes has fired
C17_Witness ==
  /\ clock = 4500
  /\ recordingStartTimeRef = 0
  /\ timer = "75:00"
  /\ isRecording

\* C18: once the component has been torn down, mediaStreamRef never holds a
\* stream with running tracks again, also when an acquisition that was
\* pending at the teardown resolves afterwards.
C18_NoCaptureSessionAfterTeardown ==
  ~mounted => ~CaptureSessionAlive

\* C19: every requestRecord that passes the camera guard leaves the fragment
\* buffer empty and no Artifact present, whether or not the encoder could
\* be constructed; when it could not, the session is in CameraReady with the
\* earlier Artifact gone.
C19_RecordResetsBeforeEncoder ==
  [][ \A enc \in EncoderOutcomes :
        (isCameraActive /\ mediaStreamRef # 0 /\ RequestRecordWith(enc)) =>
          /\ recordedChunksRef' = << >>
          /\ recordedBlob' = NullBlob
          /\ ~ShowsDownload'
          /\ ~enc.ok =>
               /\ ~isRecording'
               /\ isCameraActive'
               /\ CaptureSessionAlive'
               /\ ShowsStartRecording'
    ]_vars

\* requestRecord from Recorded failed in the encoder: the Artifact of the
\* completed recording and its buffered fragment are gone
C19_Witness ==
  /\ status = "Failed to start recording: Unknown error"
  /\ Len(recorders) = 1
  /\ recorders[1].artifacts = 1
  /\ NonEmpty(recorders[1].delivered) # << >>
  /\ ~recordedBlob.present
  /\ recordedChunksRef = << >>
  /\ ShowsStartRecording

====
